---- MODULE Spec2Model ----
(***************************************************************************)
(* A model of littleutils (src/utils.py): pretty_table, retry and          *)
(* DecentJSONEncoder.default.                                              *)
(*                                                                         *)
(* Python strings are modelled as tuples of one-character strings, so that *)
(* padding, joining, stripping, splitting and truncating are computed      *)
(* character by character.                                                 *)
(***************************************************************************)
EXTENDS Integers, Sequences, FiniteSets, TLC

VARIABLES
    rows,        \* pretty_table: the argument `rows`
    header_arg,  \* pretty_table: the argument `header`
    header,      \* pretty_table: the list object bound to the local `header`
    rows2,       \* pretty_table: the local list `rows2`
    row_type,    \* pretty_table: row_type[0]
    idx,         \* pretty_table: position of the `for row in rows` loop
    pc,          \* pretty_table: "idle", "setup", "loop" or "done"
    result,      \* pretty_table: how the call ended
    num_attempts,     \* retry: the argument num_attempts
    exception_class,  \* retry: the argument exception_class
    log,              \* retry: whether a log is given
    r_i,              \* retry: the loop variable i of wrapper
    r_calls,          \* retry: how each call of func ended, in order
    r_logs,           \* retry: the exceptions log.error was called with, in order
    r_sleeps,         \* retry: the number of sleep(sleeptime) calls
    r_pc,             \* retry: "idle", "loop" or "done"
    r_result,         \* retry: how the call of wrapper ended
    e_o,              \* default: the argument o
    e_max,            \* default: self.max_iterable_elements
    e_next,           \* default: number of items taken from iter(o)
    e_list,           \* default: the list islice is filling
    e_pc,             \* default: "idle", "start", "islice" or "done"
    e_out             \* default: how the call ended

tableVars == <<rows, header_arg, header, rows2, row_type, idx, pc, result>>

retryVars == <<num_attempts, exception_class, log, r_i, r_calls, r_logs,
               r_sleeps, r_pc, r_result>>

encVars == <<e_o, e_max, e_next, e_list, e_pc, e_out>>

vars == <<tableVars, retryVars, encVars>>

(***************************************************************************)
(* Bounds of the model.                                                    *)
(***************************************************************************)
MaxRows == 3

\* Largest num_attempts.
MaxAttempts == 3

\* Largest max_iterable_elements, and the most items a finite iterable yields.
MaxCap == 2

MaxItems == 4

\* Length of the name of the long key: its repr alone fills 997 characters.
LongKeyLen == 995

(***************************************************************************)
(* Strings.                                                                *)
(***************************************************************************)
Min(a, b) == IF a < b THEN a ELSE b

\* s[:n]
Take(s, n) == SubSeq(s, 1, Min(n, Len(s)))

\* c * n
Repeat(c, n) == [i \in 1..n |-> c]

DigitChar(d) ==
    CASE d = 0 -> "0" [] d = 1 -> "1" [] d = 2 -> "2" [] d = 3 -> "3"
      [] d = 4 -> "4" [] d = 5 -> "5" [] d = 6 -> "6" [] d = 7 -> "7"
      [] d = 8 -> "8" [] d = 9 -> "9"

RECURSIVE Digits(_)
\* str(n) of an int n >= 0
Digits(n) == IF n < 10 THEN <<DigitChar(n)>>
             ELSE Digits(n \div 10) \o <<DigitChar(n % 10)>>

\* Code points of the characters that occur in keys.
Ord(c) == CASE c = "a" -> 97 [] c = "b" -> 98 [] c = "z" -> 122

RECURSIVE StrLess(_, _)
\* s < t on Python strings
StrLess(s, t) ==
    IF t = <<>> THEN FALSE
    ELSE IF s = <<>> THEN TRUE
    ELSE IF Head(s) = Head(t) THEN StrLess(Tail(s), Tail(t))
    ELSE Ord(Head(s)) < Ord(Head(t))

IsSpace(c) == c = " "

\* s.strip(): whitespace removed at both ends
Strip(s) ==
    LET keep == {i \in 1..Len(s) : ~IsSpace(s[i])}
    IN  IF keep = {} THEN <<>>
        ELSE SubSeq(s, CHOOSE i \in keep : \A j \in keep : i <= j,
                       CHOOSE i \in keep : \A j \in keep : j <= i)

\* s.ljust(w)
Ljust(s, w) == IF Len(s) >= w THEN s ELSE s \o Repeat(" ", w - Len(s))

RECURSIVE Join(_, _)
\* sep.join(parts)
Join(sep, parts) ==
    IF parts = <<>> THEN <<>>
    ELSE IF Len(parts) = 1 THEN parts[1]
    ELSE parts[1] \o sep \o Join(sep, Tail(parts))

(***************************************************************************)
(* Values: cells, keys, rows and headers.                                  *)
(***************************************************************************)
\* A cell is a str (its characters in s) or an int (its value in n).
StrCell(s) == [t |-> "str", n |-> 0, s |-> s]

IntCell(n) == [t |-> "int", n |-> n, s |-> <<>>]

\* str(cell)
Str(cell) == IF cell.t = "int" THEN Digits(cell.n) ELSE cell.s

\* repr(key) of a str key without quotes or escapes in it
ReprKey(k) == <<"'">> \o k \o <<"'">>

\* str(list of str keys)
StrKeyList(ks) ==
    <<"[">> \o Join(<<",", " ">>, [i \in DOMAIN ks |-> ReprKey(ks[i])]) \o <<"]">>

KeyA == <<"a">>

KeyB == <<"b">>

LongKey == Repeat("z", LongKeyLen)

Cells == {StrCell(<<>>), IntCell(10)}

SeqLens == 0..2

SeqRow(cells) == [kind |-> "sequence", cells |-> cells, d |-> <<>>]

\* kind is "mapping" (a Mapping) or "record" (an object with a __dict__)
DictRow(kind, d) == [kind |-> kind, cells |-> <<>>, d |-> d]

\* The dict whose keys are those of the set S, each with the value c.
Const(S, c) == [k \in S |-> c]

\* Rows of every kind, for the row loop: sequences of three lengths, mappings
\* and records with every set of the keys a and b, and a mapping whose key
\* list is longer than the error message shows.
KindRows ==
    {SeqRow(<<>>), SeqRow(<<IntCell(10)>>), SeqRow(<<StrCell(<<>>)>>),
     SeqRow(<<IntCell(10), IntCell(10)>>), SeqRow(<<StrCell(<<>>), IntCell(10)>>)}
    \cup {DictRow("mapping", Const(S, IntCell(10))) : S \in SUBSET {KeyA, KeyB}}
    \cup {DictRow("record", Const(S, IntCell(10))) : S \in {{}, {KeyA}, {KeyA, KeyB}}}
    \cup {DictRow("mapping", Const({KeyA, LongKey}, IntCell(10)))}

\* Rows for the rendering: every sequence of up to two cells, and a few
\* mappings and records.
RenderRows ==
    {SeqRow(c) : c \in UNION {[1..n -> Cells] : n \in SeqLens}}
    \cup {DictRow("mapping", <<>>),
          DictRow("mapping", (KeyA :> StrCell(<<>>)) @@ (KeyB :> IntCell(10))),
          DictRow("mapping", (KeyA :> IntCell(10)) @@ (KeyB :> StrCell(<<>>))),
          DictRow("record", Const({KeyA}, IntCell(10)))}

\* The lists of at most MaxRows rows of R.
RowLists(R) == UNION {[1..n -> R] : n \in 0..MaxRows}

\* The argument `header`: None, a list of names, or a str.
NoHeader == [kind |-> "None", names |-> <<>>, s |-> <<>>]

ListHeader(names) == [kind |-> "list", names |-> names, s |-> <<>>]

StrHeader(s) == [kind |-> "str", names |-> <<>>, s |-> s]

Headers ==
    {NoHeader,
     ListHeader(<<>>), ListHeader(<<KeyA>>), ListHeader(<<KeyB, KeyA>>),
     StrHeader(<<>>), StrHeader(<<" ">>), StrHeader(<<"a", ",", " ", "b">>)}

\* bool(x) of a `header` argument
Truthy(x) ==
    CASE x.kind = "None" -> FALSE
      [] x.kind = "list" -> x.names # <<>>
      [] x.kind = "str" -> x.s # <<>>

IsSep(c) == c \in {",", " "}

RECURSIVE SplitSep(_, _)
\* re.split('[,\s]+', s): cur is the piece being read
SplitSep(s, cur) ==
    IF s = <<>> THEN <<cur>>
    ELSE IF IsSep(Head(s))
         THEN IF Len(s) > 1 /\ IsSep(s[2]) THEN SplitSep(Tail(s), cur)
              ELSE <<cur>> \o SplitSep(Tail(s), <<>>)
         ELSE SplitSep(Tail(s), Append(cur, Head(s)))

\* list(filter(None, xs))
FilterNone(xs) == SelectSeq(xs, LAMBDA x : x # <<>>)

ensure_list_if_string(x) ==
    IF x.kind = "str" THEN FilterNone(SplitSep(x.s, <<>>)) ELSE x.names

RECURSIVE SortedSeq(_)
\* sorted(S) of a set of str keys
SortedSeq(S) ==
    IF S = {} THEN <<>>
    ELSE LET m == CHOOSE x \in S : \A y \in S \ {x} : StrLess(x, y)
         IN  <<m>> \o SortedSeq(S \ {m})

(***************************************************************************)
(* pretty_table(rows, header=None)                                         *)
(***************************************************************************)
\* An entry of rows2: the list object `header` itself, or a row's cells.
HeaderRef == [hdr |-> TRUE, cells |-> <<>>]

RowEntry(cells) == [hdr |-> FALSE, cells |-> cells]

\* The cells an entry of rows2 holds while `header` is the list h.
EntryCells(e, h) == IF e.hdr THEN [i \in DOMAIN h |-> StrCell(h[i])] ELSE e.cells

\* rows2 as the list of lists it is while `header` is the list h.
Rows2Value(r2, h) == [i \in DOMAIN r2 |-> EntryCells(r2[i], h)]

\* How a call ends: kind is "none" while it runs.
Outcome(kind, msg) ==
    [kind |-> kind, msg |-> msg, key |-> <<>>, keys_text |-> <<>>,
     first_len |-> 0, first |-> <<>>, cur_len |-> 0, cur |-> <<>>, text |-> <<>>]

Running == Outcome("none", "")

Returned(text) == [Outcome("table", "") EXCEPT !.text = text]

\* ValueError('Cannot mix sequences and other types of rows without specifying a header')
MixError == Outcome("ValueError", "mix")

\* ValueError('Mismatched lengths. First row (len = ..): .. Current row (len = ..): ..')
LengthError(first, cur) ==
    [Outcome("ValueError", "lengths") EXCEPT
        !.first_len = Len(first), !.first = first,
        !.cur_len = Len(cur), !.cur = cur]

\* The longest text of the keys that _helpful_dict_error shows.
MaxKeysText == 1000

\* KeyError('Tried to access %r, only keys are: %s' % (key, str(sorted(d.keys()))[:1000]))
helpful_dict_error(d, key) ==
    [Outcome("KeyError", "") EXCEPT
        !.key = key,
        !.keys_text = Take(StrKeyList(SortedSeq(DOMAIN d)), MaxKeysText)]

IndexError == Outcome("IndexError", "")

\* require_type(t) without the 'any' of an explicit header.
RequireTypeFailsNoAny(rt, t) == rt \notin {"None", t}

\* require_type(t) raises
RequireTypeFails(rt, t) == rt \notin {"None", t, "any"}

\* row_type[0] after require_type(t) returned
RequireTypeSets(rt, t) == IF rt = "None" THEN t ELSE rt

\* The last key of the list h that d lacks.
LastMissing(h, d) ==
    LET miss == {i \in DOMAIN h : h[i] \notin DOMAIN d}
    IN  IF miss = {} THEN 0 ELSE CHOOSE i \in miss : \A j \in miss : j <= i

\* The first key of the list h that d lacks, as [helpful_error_dict_get(d, key)
\* for key in h] meets it; h lacks none when the result is 0.
FirstMissing(h, d) ==
    LET miss == {i \in DOMAIN h : h[i] \notin DOMAIN d}
    IN  IF miss = {} THEN 0 ELSE CHOOSE i \in miss : \A j \in miss : i <= j

\* Only a longer row is a mismatch: `rows2 and len(row) > len(rows2[0])`.
LengthMismatchLonger(r2, h, cells) ==
    r2 # <<>> /\ Len(cells) > Len(EntryCells(r2[1], h))

\* `rows2 and len(row) != len(rows2[0])`
LengthMismatch(r2, h, cells) ==
    r2 # <<>> /\ Len(cells) # Len(EntryCells(r2[1], h))

TableInit(R) ==
    /\ rows \in RowLists(R)
    /\ header_arg \in Headers
    /\ header = <<>>
    /\ rows2 = <<>>
    /\ row_type = "None"
    /\ idx = 1
    /\ pc = "setup"
    /\ result = Running

\* Lines 461-468.
Setup ==
    /\ pc = "setup"
    /\ IF Truthy(header_arg)
       THEN /\ header' = ensure_list_if_string(header_arg)
            /\ rows2' = <<HeaderRef>>
            /\ row_type' = "any"
       ELSE /\ header' = <<>>
            /\ rows2' = <<>>
            /\ row_type' = "None"
    /\ pc' = "loop"
    /\ UNCHANGED <<rows, header_arg, idx, result>>
    /\ UNCHANGED <<retryVars, encVars>>

\* handle_dict(d), then rows2.append(row): lines 476-481 and 495.
HandleDict(d) ==
    IF RequireTypeFails(row_type, "mapping")
    THEN /\ result' = MixError
         /\ pc' = "done"
         /\ UNCHANGED <<header, rows2, row_type, idx>>
    ELSE LET h  == IF header = <<>> THEN SortedSeq(DOMAIN d) ELSE header
             r2 == IF header = <<>> THEN <<HeaderRef>> \o rows2 ELSE rows2
             m  == FirstMissing(h, d)
         IN  /\ row_type' = RequireTypeSets(row_type, "mapping")
             /\ header' = h
             /\ IF m # 0
                THEN /\ result' = helpful_dict_error(d, h[m])
                     /\ pc' = "done"
                     /\ rows2' = r2
                     /\ UNCHANGED idx
                ELSE /\ rows2' = Append(r2, RowEntry([i \in DOMAIN h |-> d[h[i]]]))
                     /\ idx' = idx + 1
                     /\ UNCHANGED <<pc, result>>

\* The Sequence branch, then rows2.append(row): lines 486-492 and 495.
HandleSequence(cells) ==
    IF RequireTypeFails(row_type, "sequence")
    THEN /\ result' = MixError
         /\ pc' = "done"
         /\ UNCHANGED <<header, rows2, row_type, idx>>
    ELSE /\ row_type' = RequireTypeSets(row_type, "sequence")
         /\ UNCHANGED header
         /\ IF LengthMismatch(rows2, header, cells)
            THEN /\ result' = LengthError(EntryCells(rows2[1], header), cells)
                 /\ pc' = "done"
                 /\ UNCHANGED <<rows2, idx>>
            ELSE /\ rows2' = Append(rows2, RowEntry(cells))
                 /\ idx' = idx + 1
                 /\ UNCHANGED <<pc, result>>

\* One iteration of `for row in rows`: lines 483-495.
Row ==
    /\ pc = "loop"
    /\ idx <= Len(rows)
    /\ IF rows[idx].kind = "sequence"
       THEN HandleSequence(rows[idx].cells)
       ELSE HandleDict(rows[idx].d)
    /\ UNCHANGED <<rows, header_arg>>
    /\ UNCHANGED <<retryVars, encVars>>

\* widths, lines 497-498, for the str rows rs with rs[1] as long as every row.
Widths(rs) ==
    [i \in 1..Len(rs[1]) |->
        LET lens == {Len(rs[k][i]) : k \in DOMAIN rs}
        IN  CHOOSE w \in lens : \A v \in lens : v <= w]

\* One line, lines 499-500: zip(row, widths) stops at the shorter of the two.
Line(row, widths) ==
    Strip(Join(<<" ", "|", " ">>,
               [i \in 1..Min(Len(row), Len(widths)) |-> Ljust(row[i], widths[i])]))

\* The rule put first: lines.insert(0, '-' * len(lines[0])).
WithRuleFirst(lines, h) ==
    IF h # <<>> THEN <<Repeat("-", Len(lines[1]))>> \o lines ELSE lines

\* lines.insert(1, '-' * len(lines[0])) when `header` is not empty: lines 501-502.
WithRule(lines, h) ==
    IF h # <<>>
    THEN <<lines[1], Repeat("-", Len(lines[1]))>> \o Tail(lines)
    ELSE lines

\* Lines 497-503, after the loop.
Render ==
    /\ pc = "loop"
    /\ idx > Len(rows)
    /\ LET vals == Rows2Value(rows2, header)
           rs   == [k \in DOMAIN vals |-> [i \in DOMAIN vals[k] |-> Str(vals[k][i])]]
       IN  IF rs = <<>> \/ \E k \in DOMAIN rs : Len(rs[k]) < Len(rs[1])
           THEN result' = IndexError
           ELSE result' = Returned(Join(<<"\n">>,
                               WithRule([k \in DOMAIN rs |-> Line(rs[k], Widths(rs))],
                                        header)))
    /\ pc' = "done"
    /\ UNCHANGED <<rows, header_arg, header, rows2, row_type, idx>>
    /\ UNCHANGED <<retryVars, encVars>>

TableNext == Setup \/ Row \/ Render

TableIdle ==
    /\ rows = <<>>
    /\ header_arg = NoHeader
    /\ header = <<>>
    /\ rows2 = <<>>
    /\ row_type = "None"
    /\ idx = 1
    /\ pc = "idle"
    /\ result = Running

(***************************************************************************)
(* retry(num_attempts, exception_class, log, sleeptime)(func)              *)
(***************************************************************************)
\* The classes an exception is an instance of.
Bases(x) ==
    CASE x = "KeyError" -> {"KeyError", "LookupError", "Exception", "BaseException"}
      [] x = "IndexError" -> {"IndexError", "LookupError", "Exception", "BaseException"}
      [] x = "KeyboardInterrupt" -> {"KeyboardInterrupt", "BaseException"}

Raisable == {"KeyError", "IndexError", "KeyboardInterrupt"}

ExceptionClasses == {"Exception", "LookupError", "IndexError"}

\* How one call of func ends: it returns v, or raises exc.
FuncReturns(v) == [raised |-> FALSE, v |-> v, exc |-> ""]

FuncRaises(x) == [raised |-> TRUE, v |-> 0, exc |-> x]

FuncOutcomes == {FuncReturns(v) : v \in {1, 2}} \cup {FuncRaises(x) : x \in Raisable}

\* wrapper has not ended.
Pending == [ended |-> FALSE, raised |-> FALSE, v |-> 0, exc |-> ""]

\* wrapper ends as func's call o did.
EndsAs(o) == [ended |-> TRUE, raised |-> o.raised, v |-> o.v, exc |-> o.exc]

\* wrapper falls off its loop and returns None (v is 0).
EndsNone == [ended |-> TRUE, raised |-> FALSE, v |-> 0, exc |-> ""]

\* `except exception_class as e` catches x
Caught(x, cls) == cls \in Bases(x)

\* The same, one attempt late: `i == num_attempts`.
LastAttemptLate(i, n) == i = n

\* `i == num_attempts - 1`
LastAttempt(i, n) == i = n - 1

RetryInit ==
    /\ num_attempts \in 0..MaxAttempts
    /\ exception_class \in ExceptionClasses
    /\ log \in BOOLEAN
    /\ r_i = 0
    /\ r_calls = <<>>
    /\ r_logs = <<>>
    /\ r_sleeps = 0
    /\ r_pc = "loop"
    /\ r_result = Pending

\* One iteration of `for i in range(num_attempts)`: lines 186-195.
Attempt ==
    /\ r_pc = "loop"
    /\ r_i < num_attempts
    /\ \E o \in FuncOutcomes :
        /\ r_calls' = Append(r_calls, o)
        /\ IF o.raised /\ Caught(o.exc, exception_class)
              /\ ~LastAttempt(r_i, num_attempts)
           THEN /\ r_logs' = IF log THEN Append(r_logs, o.exc) ELSE r_logs
                /\ r_sleeps' = r_sleeps + 1
                /\ r_i' = r_i + 1
                /\ UNCHANGED <<r_pc, r_result>>
           ELSE /\ r_result' = EndsAs(o)
                /\ r_pc' = "done"
                /\ UNCHANGED <<r_logs, r_sleeps, r_i>>
    /\ UNCHANGED <<num_attempts, exception_class, log>>
    /\ UNCHANGED <<tableVars, encVars>>

\* range(num_attempts) is used up: wrapper returns None.
Exhausted ==
    /\ r_pc = "loop"
    /\ r_i >= num_attempts
    /\ r_result' = EndsNone
    /\ r_pc' = "done"
    /\ UNCHANGED <<num_attempts, exception_class, log, r_i, r_calls, r_logs, r_sleeps>>
    /\ UNCHANGED <<tableVars, encVars>>

RetryNext == Attempt \/ Exhausted

RetryIdle ==
    /\ num_attempts = 0
    /\ exception_class = "Exception"
    /\ log = FALSE
    /\ r_i = 0
    /\ r_calls = <<>>
    /\ r_logs = <<>>
    /\ r_sleeps = 0
    /\ r_pc = "idle"
    /\ r_result = Pending

(***************************************************************************)
(* DecentJSONEncoder.default(o)                                            *)
(***************************************************************************)
\* An object: its class, the items it holds or yields, and whether it goes
\* on yielding its first item for ever (itertools.repeat).
Object(type, items, endless) == [type |-> type, items |-> items, endless |-> endless]

ItemLists == UNION {[1..n -> {5, 6}] : n \in 0..MaxItems}

Objects ==
    {Object("generator", xs, FALSE) : xs \in ItemLists}
    \cup {Object("repeat", <<5>>, TRUE)}
    \cup {Object(t, xs, FALSE) : t \in {"list", "UserList", "UserDict"},
                                 xs \in {<<>>, <<5, 6>>}}
    \cup {Object(t, <<>>, FALSE) :
             t \in {"Decimal", "Fraction", "date", "time", "object"}}

\* isinstance(o, Sequence)
IsSequence(o) == o.type \in {"list", "tuple", "str", "UserList"}

\* isinstance(o, (basestring, list, tuple))
IsNative(o) == o.type \in {"list", "tuple", "str"}

\* isinstance(o, Mapping)
IsMapping(o) == o.type \in {"dict", "UserDict"}

\* iter(o) does not raise TypeError
IsIterable(o) == o.type \in {"generator", "repeat"}

\* next(iterable) raises StopIteration after k items were taken
StopIteration(o, k) == ~o.endless /\ k >= Len(o.items)

\* The item next(iterable) returns after k items were taken.
NextItem(o, k) == IF o.endless THEN o.items[1] ELSE o.items[k + 1]

\* How default ends: kind is "none" while it runs.
EncOutcome(kind, items, type, limit) ==
    [kind |-> kind, items |-> items, type |-> type, limit |-> limit]

EncRunning == EncOutcome("none", <<>>, "", 0)

\* ValueError('Object of type %s has more than %s elements.')
TooManyError(o, m) == EncOutcome("ValueError", <<>>, o.type, m)

\* `len(result) > self.max_iterable_elements`
TooMany(xs, m) == Len(xs) > m

\* A slice that stops at the cap itself: islice(iterable, self.max_iterable_elements).
SliceStopAtCap(m) == m

\* The number of items islice(iterable, self.max_iterable_elements + 1) takes at most.
SliceStop(m) == m + 1

EncInit ==
    /\ e_o \in Objects
    /\ e_max \in 0..MaxCap
    /\ e_next = 0
    /\ e_list = <<>>
    /\ e_pc = "start"
    /\ e_out = EncRunning

\* Lines 539-554 and 562: every case but the iterable one ends the call.
Classify ==
    /\ e_pc = "start"
    /\ IF IsSequence(e_o)
       THEN /\ e_out' = IF IsNative(e_o) THEN EncOutcome("same", e_o.items, e_o.type, 0)
                        ELSE EncOutcome("tuple", e_o.items, "", 0)
            /\ e_pc' = "done"
       ELSE IF IsMapping(e_o)
       THEN /\ e_out' = EncOutcome("dict", e_o.items, "", 0)
            /\ e_pc' = "done"
       ELSE IF e_o.type \in {"Decimal", "Fraction"}
       THEN /\ e_out' = EncOutcome("float", <<>>, "", 0)
            /\ e_pc' = "done"
       ELSE IF e_o.type \in {"date", "time"}
       THEN /\ e_out' = EncOutcome("isoformat", <<>>, "", 0)
            /\ e_pc' = "done"
       ELSE IF IsIterable(e_o)
       THEN /\ e_pc' = "islice"
            /\ UNCHANGED e_out
       ELSE /\ e_out' = EncOutcome("TypeError", <<>>, e_o.type, 0)
            /\ e_pc' = "done"
    /\ UNCHANGED <<e_o, e_max, e_next, e_list>>
    /\ UNCHANGED <<tableVars, retryVars>>

\* list(islice(iterable, n)) takes one more item: line 556.
Take1 ==
    /\ e_pc = "islice"
    /\ Len(e_list) < SliceStop(e_max)
    /\ ~StopIteration(e_o, e_next)
    /\ e_list' = Append(e_list, NextItem(e_o, e_next))
    /\ e_next' = e_next + 1
    /\ UNCHANGED <<e_o, e_max, e_pc, e_out>>
    /\ UNCHANGED <<tableVars, retryVars>>

\* islice is done; lines 557-560.
Finish ==
    /\ e_pc = "islice"
    /\ Len(e_list) >= SliceStop(e_max) \/ StopIteration(e_o, e_next)
    /\ e_out' = IF TooMany(e_list, e_max) THEN TooManyError(e_o, e_max)
                ELSE EncOutcome("list", e_list, "", 0)
    /\ e_pc' = "done"
    /\ UNCHANGED <<e_o, e_max, e_next, e_list>>
    /\ UNCHANGED <<tableVars, retryVars>>

EncNext == Classify \/ Take1 \/ Finish

EncIdle ==
    /\ e_o = Object("object", <<>>, FALSE)
    /\ e_max = 0
    /\ e_next = 0
    /\ e_list = <<>>
    /\ e_pc = "idle"
    /\ e_out = EncRunning

(***************************************************************************)
(* Specifications: one call of each function, from any of its inputs.      *)
(***************************************************************************)
TableStart == TableInit(KindRows) /\ RetryIdle /\ EncIdle

RenderStart == TableInit(RenderRows) /\ RetryIdle /\ EncIdle

RetryStart == RetryInit /\ TableIdle /\ EncIdle

EncStart == EncInit /\ TableIdle /\ RetryIdle

SpecTable == TableStart /\ [][TableNext]_vars

SpecRender == RenderStart /\ [][TableNext]_vars

SpecRetry == RetryStart /\ [][RetryNext]_vars

SpecEncoder == EncStart /\ [][EncNext]_vars

(***************************************************************************)
(* Vocabulary of the claims.                                               *)
(***************************************************************************)
IsSeqRow(r) == r.kind = "sequence"

IsDictRow(r) == r.kind \in {"mapping", "record"}

\* The call has ended, one way or another.
Ended == pc = "done"

\* The column names an explicit header gives.
Names == ensure_list_if_string(header_arg)

\* The smallest member of a non-empty set of numbers.
Least(S) == CHOOSE i \in S : \A j \in S : i <= j

\* The rows whose kind is not the first row's: sequence against mapping or record.
Differing == {i \in DOMAIN rows : IsSeqRow(rows[i]) # IsSeqRow(rows[1])}

Mixed == rows # <<>> /\ Differing # {}

\* An explicit header that fits every row: its names are keys of every
\* mapping or record row, and every sequence row is as long as it.
HeaderFits ==
    /\ header_arg.kind # "None"
    /\ \A i \in DOMAIN rows :
        IF IsSeqRow(rows[i]) THEN Len(rows[i].cells) = Len(Names)
        ELSE \A k \in DOMAIN Names : Names[k] \in DOMAIN rows[i].d

(***************************************************************************)
(* C1 (as stated): with no header, a row list that mixes sequence rows with *)
(* mapping or record rows always fails with the usage error, at the first  *)
(* row whose kind differs from the first row's; with an explicit header    *)
(* that fits every row (stated for the headers that name a column), the    *)
(* same row list returns a table.                                          *)
(***************************************************************************)
C1_AsStated ==
    (Ended /\ Mixed) =>
        /\ header_arg.kind = "None" => (result = MixError /\ idx = Least(Differing))
        /\ (HeaderFits /\ Names # <<>>) => result.kind = "table"

(***************************************************************************)
(* C1 (amended): with no header, a mixed row list never returns a table:   *)
(* it fails with the usage error at the first row whose kind differs from  *)
(* the first row's, unless an earlier row already failed with the          *)
(* length-mismatch or the key-lookup error; with an explicit header that   *)
(* fits every row and names at least one column, it returns a table.       *)
(***************************************************************************)
C1_MixedRows ==
    (Ended /\ Mixed) =>
        /\ header_arg.kind = "None" =>
            \/ result = MixError /\ idx = Least(Differing)
            \/ /\ idx < Least(Differing)
               /\ \/ result.kind = "KeyError"
                  \/ result.kind = "ValueError" /\ result.msg = "lengths"
        /\ (HeaderFits /\ Names # <<>>) => result.kind = "table"

\* A mixed row list has failed, without a header, at its second or a later row.
C1_Witness ==
    /\ Ended /\ Mixed /\ header_arg.kind = "None"
    /\ result = MixError /\ idx = Least(Differing) /\ idx = Len(rows)
    /\ Len(rows) >= 2

(***************************************************************************)
(* C2: after setup and after every iteration of the loop, all entries of   *)
(* rows2 (the header and the normalized rows) have the same length.        *)
(***************************************************************************)
C2_EqualLengths ==
    pc \in {"loop", "done"} =>
        \A i, j \in DOMAIN rows2 :
            Len(Rows2Value(rows2, header)[i]) = Len(Rows2Value(rows2, header)[j])

(***************************************************************************)
(* C3: default applied to a generic iterable that yields n items, with the *)
(* cap m = max_iterable_elements: when n <= m it returns the list of those *)
(* n items in order; when n > m, or the iterable is endless, it fails with *)
(* the ValueError that names the type and m. It never returns a list that  *)
(* is not all the items the iterable yields.                               *)
(***************************************************************************)
C3_IterableCap ==
    (e_pc = "done" /\ e_o.type \in {"generator", "repeat"}) =>
        /\ (~e_o.endless /\ Len(e_o.items) <= e_max) =>
               (e_out.kind = "list" /\ e_out.items = e_o.items)
        /\ (e_o.endless \/ Len(e_o.items) > e_max) =>
               (e_out.kind = "ValueError" /\ e_out.type = e_o.type
                /\ e_out.limit = e_max)
        /\ e_out.kind = "list" => (~e_o.endless /\ e_out.items = e_o.items)

\* An iterable of exactly m >= 1 items was returned whole.
C3_Witness ==
    /\ e_pc = "done" /\ e_o.type = "generator"
    /\ e_max >= 1 /\ Len(e_o.items) = e_max
    /\ e_out.kind = "list" /\ e_out.items = e_o.items

(***************************************************************************)
(* C8: with num_attempts = N >= 1 the attempts follow one another until    *)
(* one ends the run: a return ends it with that value, an exception that   *)
(* is no instance of exception_class ends it at once, an instance of it is *)
(* followed by another attempt unless it was attempt N, whose exception is *)
(* propagated. So func is called at most N times, N times when every       *)
(* attempt raises an instance of exception_class, and with a log one       *)
(* message is logged per failed attempt that another attempt follows.      *)
(***************************************************************************)
C8_Retry ==
    (r_pc # "idle" /\ num_attempts >= 1) =>
        LET n == Len(r_calls)
            retried(o) == o.raised /\ exception_class \in Bases(o.exc)
        IN  /\ n <= num_attempts
            \* every attempt but the last one made raised an instance, and was
            \* followed by a sleep and, with a log, by one message
            /\ \A k \in 1..(n - 1) : retried(r_calls[k])
            /\ r_pc = "loop" =>
                   /\ \A k \in 1..n : retried(r_calls[k])
                   /\ n < num_attempts
                   /\ r_logs = IF log THEN [k \in 1..n |-> r_calls[k].exc] ELSE <<>>
            /\ r_pc = "done" =>
                   /\ n >= 1
                   /\ r_result = [ended |-> TRUE, raised |-> r_calls[n].raised,
                                  v |-> r_calls[n].v, exc |-> r_calls[n].exc]
                   /\ retried(r_calls[n]) => n = num_attempts
                   /\ r_logs = IF log THEN [k \in 1..(n - 1) |-> r_calls[k].exc]
                               ELSE <<>>

\* All of N >= 2 attempts raised an instance of exception_class, with a log.
C8_Witness ==
    /\ r_pc = "done" /\ num_attempts >= 2 /\ log
    /\ Len(r_calls) = num_attempts
    /\ r_result.raised /\ exception_class \in Bases(r_result.exc)
    /\ Len(r_logs) = num_attempts - 1

(***************************************************************************)
(* C4 (as stated): whenever the mapping or record row being processed      *)
(* lacks a key of the header in force, the call fails with the KeyError    *)
(* that names the first missing header key, in header order, and lists the *)
(* sorted keys the row has; a row with every header key, extra keys or     *)
(* not, does not raise it.                                                 *)
(***************************************************************************)
C4_AsStated ==
    [][(pc = "loop" /\ idx <= Len(rows) /\ IsDictRow(rows[idx])) =>
        LET d == rows[idx].d
            lacking == {k \in DOMAIN header : header[k] \notin DOMAIN d}
        IN  IF lacking # {}
            THEN /\ pc' = "done"
                 /\ result'.kind = "KeyError"
                 /\ result'.key = header[Least(lacking)]
                 /\ result'.keys_text = StrKeyList(SortedSeq(DOMAIN d))
            ELSE result'.kind # "KeyError"]_vars

(***************************************************************************)
(* C4 (amended): the same, but the KeyError lists the sorted keys of the   *)
(* row only as far as the first 1000 characters of the text of that list.  *)
(***************************************************************************)
C4_MissingKey ==
    [][(pc = "loop" /\ idx <= Len(rows) /\ IsDictRow(rows[idx])) =>
        LET d == rows[idx].d
            lacking == {k \in DOMAIN header : header[k] \notin DOMAIN d}
            listed == StrKeyList(SortedSeq(DOMAIN d))
        IN  IF lacking # {}
            THEN /\ pc' = "done"
                 /\ result'.kind = "KeyError"
                 /\ result'.key = header[Least(lacking)]
                 /\ result'.keys_text = SubSeq(listed, 1, Min(Len(listed), 1000))
            ELSE result'.kind # "KeyError"]_vars

\* A row lacked the second key of the header, and the text of its keys was cut.
C4_Witness ==
    /\ Ended /\ result.kind = "KeyError"
    /\ Len(header) = 2 /\ result.key = header[2]
    /\ Len(result.keys_text) = 1000
    /\ Len(StrKeyList(SortedSeq(DOMAIN rows[idx].d))) > 1000

(***************************************************************************)
(* C6: without an explicit header, the header is fixed by the first        *)
(* mapping or record row processed: it is the ascending sort of that row's *)
(* keys, it is in rows2 once, as the first entry, and no later row changes *)
(* it. An explicit header is never changed by a row.                       *)
(***************************************************************************)
C6_HeaderFixed ==
    LET dicts == {k \in 1..(idx - 1) : IsDictRow(rows[k])}
        refs  == {i \in DOMAIN rows2 : rows2[i].hdr}
    IN  pc \in {"loop", "done"} =>
            IF header_arg.kind # "None" /\ Truthy(header_arg)
            THEN header = Names
            ELSE dicts # {} =>
                    /\ header = SortedSeq(DOMAIN rows[Least(dicts)].d)
                    /\ refs = {1}

(***************************************************************************)
(* C7 (as stated): a sequence row whose length differs from the length of  *)
(* the first sequence row seen in the call fails with the length-mismatch  *)
(* error, which reports the length and contents of the first sequence row  *)
(* seen and of the offending row; the first sequence row, and one as long  *)
(* as it, does not. With or without an explicit header.                    *)
(***************************************************************************)
C7_AsStated ==
    [][(pc = "loop" /\ idx <= Len(rows) /\ IsSeqRow(rows[idx])) =>
        LET seen == {k \in 1..(idx - 1) : IsSeqRow(rows[k])}
            cur  == rows[idx].cells
        IN  IF seen # {} /\ Len(cur) # Len(rows[Least(seen)].cells)
            THEN /\ pc' = "done"
                 /\ result'.kind = "ValueError" /\ result'.msg = "lengths"
                 /\ result'.first = rows[Least(seen)].cells
                 /\ result'.first_len = Len(rows[Least(seen)].cells)
                 /\ result'.cur = cur /\ result'.cur_len = Len(cur)
            ELSE result'.msg # "lengths"]_vars

(***************************************************************************)
(* C7 (amended): with a header argument that is not empty, every sequence  *)
(* row, the first included, must be as long as the header, and the error   *)
(* reports the header's length and names as the first row; without one,    *)
(* every sequence row after the first must be as long as the first         *)
(* sequence row seen, which the error reports. Either way the error also   *)
(* reports the length and contents of the offending row.                   *)
(***************************************************************************)
C7_SequenceLengths ==
    [][(pc = "loop" /\ idx <= Len(rows) /\ IsSeqRow(rows[idx])) =>
        LET seen == {k \in 1..(idx - 1) : IsSeqRow(rows[k])}
            cur  == rows[idx].cells
            any  == Truthy(header_arg) \/ seen # {}
            ref  == IF Truthy(header_arg)
                    THEN [i \in DOMAIN header |-> StrCell(header[i])]
                    ELSE rows[Least(seen)].cells
        IN  IF any /\ Len(cur) # Len(ref)
            THEN /\ pc' = "done"
                 /\ result'.kind = "ValueError" /\ result'.msg = "lengths"
                 /\ result'.first = ref /\ result'.first_len = Len(ref)
                 /\ result'.cur = cur /\ result'.cur_len = Len(cur)
            ELSE result'.msg # "lengths"]_vars

\* Under a header of two names, a sequence row of two cells was followed by
\* a shorter one: the error reports the header, not the first sequence row.
C7_Witness ==
    /\ Ended /\ result.msg = "lengths" /\ idx = 2
    /\ Truthy(header_arg) /\ Len(header) = 2
    /\ IsSeqRow(rows[1]) /\ Len(rows[1].cells) = 2
    /\ result.first = [i \in DOMAIN header |-> StrCell(header[i])]
    /\ result.first # rows[1].cells
    /\ result.cur = rows[2].cells

(***************************************************************************)
(* C10: a call ends by returning a table, or with the usage error, the     *)
(* key-lookup error or the length-mismatch error, and in no other way.     *)
(***************************************************************************)
C10_FourEndings ==
    Ended =>
        \/ result.kind = "table"
        \/ result.kind = "ValueError" /\ result.msg \in {"mix", "lengths"}
        \/ result.kind = "KeyError"

(***************************************************************************)
(* Vocabulary of the claims about the returned text.                       *)
(***************************************************************************)
RECURSIVE SplitLines(_, _)
\* The lines of a text: the pieces between its line breaks (cur is the
\* piece being read).
SplitLines(s, cur) ==
    IF s = <<>> THEN <<cur>>
    ELSE IF Head(s) = "\n" THEN <<cur>> \o SplitLines(Tail(s), <<>>)
    ELSE SplitLines(Tail(s), Append(cur, Head(s)))

\* The lines of the table returned.
Lines == SplitLines(result.text, <<>>)

\* The number of bars in a line, and of separators " | ".
CountBars(line) == Cardinality({i \in DOMAIN line : line[i] = "|"})

CountSeps(line) ==
    Cardinality({i \in 1..(Len(line) - 2) :
                    line[i] = " " /\ line[i + 1] = "|" /\ line[i + 2] = " "})

\* A text with something other than blanks in it.
NonBlank(s) == \E i \in DOMAIN s : s[i] # " "

\* A text without the blanks at its end.
RStrip(s) ==
    IF NonBlank(s)
    THEN SubSeq(s, 1, CHOOSE i \in DOMAIN s :
                          s[i] # " " /\ \A j \in (i + 1)..Len(s) : s[j] = " ")
    ELSE <<>>

\* The display strings of the entries of rows2, the header row included.
Shown ==
    [k \in DOMAIN rows2 |->
        IF rows2[k].hdr THEN header
        ELSE [i \in DOMAIN rows2[k].cells |-> Str(rows2[k].cells[i])]]

\* The lines of the table that render entries of rows2: all of them but the
\* rule under the header.
EntryLines == IF header # <<>> THEN <<Lines[1]>> \o SubSeq(Lines, 3, Len(Lines)) ELSE Lines

\* Every row is a sequence of L cells.
AllSequences(L) == \A i \in DOMAIN rows : IsSeqRow(rows[i]) /\ Len(rows[i].cells) = L

(***************************************************************************)
(* C5 (as stated): when every row is a sequence of the same length L, the  *)
(* text returned has len(rows) lines without a header and len(rows) + 1    *)
(* lines with a header of length L, and every line has exactly L - 1       *)
(* separators " | ". Stated for the row lists that fix L, those with a     *)
(* row, and for L >= 1.                                                    *)
(***************************************************************************)
C5_AsStated ==
    \A L \in SeqLens \ {0} :
        (/\ Ended /\ rows # <<>> /\ AllSequences(L)
         /\ header_arg.kind = "None" \/ Len(Names) = L) =>
            /\ result.kind = "table"
            /\ Len(Lines) = Len(rows) + (IF header_arg.kind = "None" THEN 0 ELSE 1)
            /\ \A k \in DOMAIN Lines : CountSeps(Lines[k]) = L - 1

(***************************************************************************)
(* C5 (amended): when every row is a sequence of the same length L >= 1    *)
(* (cells without bars or line breaks in their display strings), the text  *)
(* returned has len(rows) lines without a header and len(rows) + 2 lines   *)
(* with a header of L names: the header line, a rule of dashes as long as  *)
(* it, and one line per row. Every line but the rule has exactly L - 1     *)
(* bars, and exactly L - 1 separators " | " when the first and the last    *)
(* cell of its row are not blank. With no rows and no header the call      *)
(* raises IndexError instead.                                              *)
(***************************************************************************)
C5_Lines ==
    \A L \in SeqLens \ {0} :
        (/\ Ended /\ AllSequences(L)
         /\ ~Truthy(header_arg) \/ Len(Names) = L) =>
            IF rows = <<>> /\ ~Truthy(header_arg)
            THEN result.kind = "IndexError"
            ELSE /\ result.kind = "table"
                 /\ IF Truthy(header_arg)
                    THEN /\ Len(Lines) = Len(rows) + 2
                         /\ Lines[2] = [i \in 1..Len(Lines[1]) |-> "-"]
                    ELSE Len(Lines) = Len(rows)
                 /\ Len(EntryLines) = Len(Shown)
                 /\ \A k \in DOMAIN EntryLines :
                        /\ CountBars(EntryLines[k]) = L - 1
                        /\ (NonBlank(Shown[k][1]) /\ NonBlank(Shown[k][L])) =>
                               CountSeps(EntryLines[k]) = L - 1

\* Under a header of two names, a table of two rows of two cells was
\* returned, and the first cell of a row is blank.
C5_Witness ==
    /\ Ended /\ result.kind = "table" /\ AllSequences(2)
    /\ Truthy(header_arg) /\ Len(Names) = 2 /\ Len(rows) = 2
    /\ Len(Lines) = 4
    /\ ~NonBlank(Str(rows[2].cells[1])) /\ CountSeps(Lines[4]) = 0

(***************************************************************************)
(* C9: every line rendered for an entry of rows2, the header row included, *)
(* is the entry's display strings, each padded on the right to the width   *)
(* of its column (the longest display string in that column), joined by    *)
(* " | ", with the blanks at its end removed and those at its start kept.  *)
(***************************************************************************)
C9_AlignedLines ==
    (Ended /\ result.kind = "table") =>
        LET width(i) == LET lens == {Len(Shown[k][i]) : k \in DOMAIN Shown}
                        IN  CHOOSE w \in lens : \A v \in lens : v <= w
            padded(k) == [i \in DOMAIN Shown[k] |->
                             Shown[k][i] \o [j \in 1..(width(i) - Len(Shown[k][i])) |-> " "]]
        IN  /\ Len(EntryLines) = Len(Shown)
            /\ \A k \in DOMAIN Shown :
                   EntryLines[k] = RStrip(Join(<<" ", "|", " ">>, padded(k)))

====
